---------------------------- MODULE Spec2Model ----------------------------
(***************************************************************************)
(* Bulk SMS sender: the express service that drives one Google Messages    *)
(* page through puppeteer (src/src/services/smsService.js) and the React   *)
(* client whose sendMessages loop posts one /send-message request per      *)
(* contact (src/unnamed/part_000).                                         *)
(*                                                                         *)
(* The server keeps three module-level variables (browser, page,           *)
(* isConnected) that every request handler reads and writes; a handler     *)
(* runs atomically from one await to the next.  Each client (one browser   *)
(* tab running the React app) keeps its own form state and runs at most    *)
(* one sendMessages loop at a time.                                        *)
(***************************************************************************)
EXTENDS Naturals, Sequences, FiniteSets

\* ------------------------------------------------------------------ bounds
NClients == 2          \* browser tabs running the client against the service
MaxContacts == 2       \* contacts one client ever creates (fresh ids 1..MaxContacts)
MaxConnects == 2       \* /connect requests explored in one behaviour
MaxRuns == 2           \* sendMessages calls explored in one behaviour
MaxEdits == 4          \* form edits (contacts, message, delay) explored in one behaviour

\* ------------------------------------------------------- program constants
\* The five page-manipulating steps of /send-message, each followed by its
\* fixed waitForTimeout: click Start chat, type phone, Enter, type message,
\* Enter.
NSendSteps == 5

Clients == 1..NClients
ConnIds == 1..MaxConnects
Messages == {"hi"}
DelayChoices == {0, 2}

VARIABLES
    browser,        \* server: 0 is null, n > 0 the n-th browser puppeteer launched
    page,           \* server: 0 is null, n > 0 a page of browser n
    isConnected,    \* server flag
    sessionLost,    \* environment: the remote session behind the page has dropped
    conn,           \* /connect handlers in flight: slot -> [pc, client]
    send,           \* /send-message handler of each client's pending request
    contacts,       \* client: contact list (ids, in order)
    nextId,         \* client: next fresh contact id
    currentMessage, \* client: message text ("" when empty)
    delay,          \* client: seconds between messages
    isQRScanned,    \* client flag
    isSending,      \* client flag
    run,            \* client: the sendMessages call (its closure and position)
    lostAt,         \* history: the recipient being sent to when the session dropped
    used            \* history: requests, runs and edits made so far (for the bounds)

vars == <<browser, page, isConnected, sessionLost, conn, send, contacts, nextId,
          currentMessage, delay, isQRScanned, isSending, run, lostAt, used>>

server == <<browser, page, isConnected>>
form == <<contacts, nextId, currentMessage, delay>>
history == <<lostAt, used>>

\* A client's pending /send-message request: none, a handler about to run page
\* step n, or answered with HTTP status n (0: the fetch itself was rejected).
NoRequest == [at |-> "none", n |-> 0]
AtStep(k) == [at |-> "step", n |-> k]
Answered(status) == [at |-> "answered", n |-> status]

NoRun == [pc |-> "idle", recipients |-> <<>>, message |-> "", delay |-> 0,
          idx |-> 0, outcomes |-> <<>>, startConn |-> FALSE, requests |-> <<>>]

\* A /connect slot: not yet requested, in a handler, or answered and received.
FreeConn == [pc |-> "free", client |-> 0]
ClosedConn == [pc |-> "closed", client |-> 0]

Init ==
    /\ browser = 0
    /\ page = 0
    /\ isConnected = FALSE
    /\ sessionLost = FALSE
    /\ conn = [h \in ConnIds |-> FreeConn]
    /\ send = [c \in Clients |-> NoRequest]
    /\ contacts = [c \in Clients |-> <<>>]
    /\ nextId = [c \in Clients |-> 1]
    /\ currentMessage = [c \in Clients |-> ""]
    /\ delay = [c \in Clients |-> 0]
    /\ isQRScanned = [c \in Clients |-> FALSE]
    /\ isSending = [c \in Clients |-> FALSE]
    /\ run = [c \in Clients |-> NoRun]
    /\ lostAt = [c \in Clients |-> 0]
    /\ used = [connects |-> 0, runs |-> 0, edits |-> 0]

\* ------------------------------------------------------------- the service

\* The positions of a /connect handler inside initBrowser.
InitPcs == {"launch", "newPage", "setup", "auth"}

\* app.post('/connect'), from the request's arrival to its first await:
\* `if (!browser) await initBrowser()` starts puppeteer.launch; otherwise
\* the handler answers {success: true} at once.
ConnectEntry(b) == IF b = 0 THEN "launch" ELSE "ok"

\* app.post('/send-message') up to its first await: 400 when !isConnected,
\* otherwise page.click('Start chat') is started.
SendEntry(connected) == IF connected THEN AtStep(1) ELSE Answered(400)

\* startSMSService: the Connect Service button (rendered while !isQRScanned)
\* posts /connect; the handler runs to its first await.
StartSMSService(c) ==
    /\ ~isQRScanned[c]
    /\ used.connects < MaxConnects
    /\ used' = [used EXCEPT !.connects = @ + 1]
    /\ conn' = [conn EXCEPT ![used.connects + 1] =
                    [pc |-> ConnectEntry(browser), client |-> c]]
    /\ UNCHANGED <<server, sessionLost, send, form, isQRScanned, isSending, run, lostAt>>

\* browser = await puppeteer.launch(...)
LaunchOk(h) ==
    /\ conn[h].pc = "launch"
    /\ browser' = browser + 1
    /\ conn' = [conn EXCEPT ![h].pc = "newPage"]
    /\ UNCHANGED <<page, isConnected, sessionLost, send, form, isQRScanned, isSending, run, history>>

\* page = await browser.newPage()
NewPageOk(h) ==
    /\ conn[h].pc = "newPage"
    /\ page' = browser
    /\ conn' = [conn EXCEPT ![h].pc = "setup"]
    /\ UNCHANGED <<browser, isConnected, sessionLost, send, form, isQRScanned, isSending, run, history>>

\* setViewport, goto the authentication page, waitForSelector('qr-code')
SetupOk(h) ==
    /\ conn[h].pc = "setup"
    /\ conn' = [conn EXCEPT ![h].pc = "auth"]
    /\ UNCHANGED <<server, sessionLost, send, form, isQRScanned, isSending, run, history>>

\* await navigationPromise resolves: isConnected = true, initBrowser returns
\* and the handler answers {success: true}.
AuthOk(h) ==
    /\ conn[h].pc = "auth"
    /\ isConnected' = TRUE
    /\ conn' = [conn EXCEPT ![h].pc = "ok"]
    /\ UNCHANGED <<browser, page, sessionLost, send, form, isQRScanned, isSending, run, history>>

\* Mutant of InitFail: the wait for the navigation that follows the scan has
\* no timeout.
InitFailNoAuthTimeout(h) ==
    /\ conn[h].pc \in InitPcs \ {"auth"}
    /\ isConnected' = FALSE
    /\ conn' = [conn EXCEPT ![h].pc = "err"]
    /\ UNCHANGED <<browser, page, sessionLost, send, form, isQRScanned, isSending, run, history>>

\* Mutant of InitFail: the error is swallowed and the handler answers success.
InitFailSwallowed(h) ==
    /\ conn[h].pc \in InitPcs
    /\ isConnected' = FALSE
    /\ conn' = [conn EXCEPT ![h].pc = "ok"]
    /\ UNCHANGED <<browser, page, sessionLost, send, form, isQRScanned, isSending, run, history>>

\* Any await of initBrowser rejects (launch failure, navigation or selector
\* timeout, no navigation within 300 s): the catch sets isConnected = false
\* and rethrows, and the handler answers 500.
InitFail(h) ==
    /\ conn[h].pc \in InitPcs
    /\ isConnected' = FALSE
    /\ conn' = [conn EXCEPT ![h].pc = "err"]
    /\ UNCHANGED <<browser, page, sessionLost, send, form, isQRScanned, isSending, run, history>>

\* The client receives the /connect response: on {success: true} it sets
\* isQRScanned; on an error it only logs.
ConnectResponse(h) ==
    /\ conn[h].pc \in {"ok", "err"}
    /\ isQRScanned' = [isQRScanned EXCEPT
                          ![conn[h].client] = @ \/ conn[h].pc = "ok"]
    /\ conn' = [conn EXCEPT ![h] = ClosedConn]
    /\ UNCHANGED <<server, sessionLost, send, form, isSending, run, history>>

\* app.get('/status'): res.json({ connected: isConnected }); no side effect.
Status == [connected |-> isConnected]

\* The remote session drops (phone unpaired, browser window closed).  Nothing
\* in the service observes it: isConnected keeps its value.
SessionDrop ==
    /\ isConnected
    /\ ~sessionLost
    /\ sessionLost' = TRUE
    /\ lostAt' = [c \in Clients |->
                     IF run[c].pc = "wait" /\ send[c].at = "step"
                     THEN run[c].idx ELSE lostAt[c]]
    /\ UNCHANGED <<server, conn, send, form, isQRScanned, isSending, run, used>>

\* One page-manipulating step of /send-message (and its waitForTimeout)
\* resolves; after the last one the handler answers {success: true}.
StepDone(k) == IF k = NSendSteps THEN Answered(200) ELSE AtStep(k + 1)

SendStepOk(c) ==
    /\ send[c].at = "step"
    /\ page # 0
    /\ ~sessionLost
    /\ send' = [send EXCEPT ![c] = StepDone(send[c].n)]
    /\ UNCHANGED <<server, sessionLost, conn, form, isQRScanned, isSending, run, history>>

\* A step throws (missing selector, timeout, closed page): the catch answers 500.
SendStepFail(c) ==
    /\ send[c].at = "step"
    /\ send' = [send EXCEPT ![c] = Answered(500)]
    /\ UNCHANGED <<server, sessionLost, conn, form, isQRScanned, isSending, run, history>>

\* -------------------------------------------------------------- the client

\* One more form edit, within the bound.
Edit ==
    /\ used.edits < MaxEdits
    /\ used' = [used EXCEPT !.edits = @ + 1]

\* handleAddContact: append a contact with a fresh id.
handleAddContact(c) ==
    /\ nextId[c] <= MaxContacts
    /\ contacts' = [contacts EXCEPT ![c] = Append(@, nextId[c])]
    /\ nextId' = [nextId EXCEPT ![c] = @ + 1]
    /\ Edit
    /\ UNCHANGED <<server, sessionLost, conn, send, currentMessage, delay,
                   isQRScanned, isSending, run, lostAt>>

\* n fresh contact ids starting at id.
Fresh(id, n) == [k \in 1..n |-> id + k - 1]

\* handleFileUpload: reader.onload appends the n contacts parsed from the file
\* (setContacts(prev => [...prev, ...newContacts])).
handleFileUpload(c, n) ==
    /\ nextId[c] + n - 1 <= MaxContacts
    /\ contacts' = [contacts EXCEPT ![c] = @ \o Fresh(nextId[c], n)]
    /\ nextId' = [nextId EXCEPT ![c] = @ + n]
    /\ Edit
    /\ UNCHANGED <<server, sessionLost, conn, send, currentMessage, delay,
                   isQRScanned, isSending, run, lostAt>>

\* contacts.filter(contact => contact.id !== id)
Without(s, id) == SelectSeq(s, LAMBDA x : x # id)

\* handleDeleteContact
handleDeleteContact(c, id) ==
    /\ \E k \in 1..Len(contacts[c]) : contacts[c][k] = id
    /\ contacts' = [contacts EXCEPT ![c] = Without(@, id)]
    /\ Edit
    /\ UNCHANGED <<server, sessionLost, conn, send, nextId, currentMessage, delay,
                   isQRScanned, isSending, run, lostAt>>

\* The message textarea's onChange.
SetMessage(c, m) ==
    /\ currentMessage[c] # m
    /\ currentMessage' = [currentMessage EXCEPT ![c] = m]
    /\ Edit
    /\ UNCHANGED <<server, sessionLost, conn, send, contacts, nextId, delay,
                   isQRScanned, isSending, run, lostAt>>

\* The delay input's onChange.
SetDelay(c, d) ==
    /\ delay[c] # d
    /\ delay' = [delay EXCEPT ![c] = d]
    /\ Edit
    /\ UNCHANGED <<server, sessionLost, conn, send, contacts, nextId, currentMessage,
                   isQRScanned, isSending, run, lostAt>>

\* The Send Messages button is disabled while
\* !isQRScanned || isSending || !currentMessage || contacts.length === 0.
ButtonEnabled(c) ==
    /\ isQRScanned[c]
    /\ ~isSending[c]
    /\ currentMessage[c] # ""
    /\ contacts[c] # <<>>

\* sendMessages up to the loop's first await: setIsSending(true); the closure
\* holds the contacts, message and delay of the render that was clicked.
\* startConn records the server's isConnected at that moment, requests the
\* /send-message requests the call has issued.
StartRun(c) ==
    [pc |-> "send", recipients |-> contacts[c], message |-> currentMessage[c],
     delay |-> delay[c], idx |-> 1, outcomes |-> <<>>, startConn |-> isConnected,
     requests |-> <<>>]

\* sendMessages' own check: `if (!currentMessage || contacts.length === 0)`
\* logs an error and returns.
NothingToSend(c) == currentMessage[c] = "" \/ contacts[c] = <<>>

sendMessages(c) ==
    /\ ButtonEnabled(c)
    /\ ~NothingToSend(c)
    /\ run' = [run EXCEPT ![c] = StartRun(c)]
    /\ isSending' = [isSending EXCEPT ![c] = TRUE]
    /\ used.runs < MaxRuns
    /\ used' = [used EXCEPT !.runs = @ + 1]
    /\ lostAt' = [lostAt EXCEPT ![c] = 0]
    /\ UNCHANGED <<server, sessionLost, conn, send, form, isQRScanned>>

\* Mutant of Request: the body is built from the form's current state instead
\* of the call's closure.
RequestFromForm(c) ==
    [idx |-> run[c].idx,
     phone |-> IF run[c].idx <= Len(contacts[c]) THEN contacts[c][run[c].idx] ELSE 0,
     message |-> currentMessage[c]]

\* The body of the request for the loop's current contact:
\* {phone: contact.phone, message: currentMessage}.
Request(c) ==
    [idx |-> run[c].idx, phone |-> run[c].recipients[run[c].idx],
     message |-> run[c].message]

\* The loop's fetch of /send-message for recipient idx reaches the service and
\* the handler runs to its first await: 400 when !isConnected, otherwise the
\* first page step is started.
Fetch(c) ==
    /\ run[c].pc = "send"
    /\ run' = [run EXCEPT ![c].pc = "wait", ![c].requests = Append(@, Request(c))]
    /\ send' = [send EXCEPT ![c] = SendEntry(isConnected)]
    /\ UNCHANGED <<server, sessionLost, conn, form, isQRScanned, isSending, history>>

\* The fetch itself rejects (service unreachable): no handler runs.
FetchReject(c) ==
    /\ run[c].pc = "send"
    /\ run' = [run EXCEPT ![c].pc = "wait", ![c].requests = Append(@, Request(c))]
    /\ send' = [send EXCEPT ![c] = Answered(0)]
    /\ UNCHANGED <<server, sessionLost, conn, form, isQRScanned, isSending, history>>

\* Mutant of Outcome: every outcome is attributed to the first recipient.
OutcomeOfFirst(r, status) == [contact |-> r.recipients[1], status |-> status]

\* The terminal line logged for the contact of the current iteration.
Outcome(r, status) == [contact |-> r.recipients[r.idx], status |-> status]

\* Mutant of NextContact: after the last contact the loop takes it again.
NextContactNeverEnds(r) ==
    IF r.idx < Len(r.recipients)
    THEN [r EXCEPT !.idx = @ + 1, !.pc = "send"]
    ELSE [r EXCEPT !.pc = "send"]

\* The for-of loop moves to its next contact, or ends: setIsSending(false),
\* 'Finished sending messages'.
NextContact(r) ==
    IF r.idx < Len(r.recipients)
    THEN [r EXCEPT !.idx = @ + 1, !.pc = "send"]
    ELSE [r EXCEPT !.pc = "done"]

\* Mutant of OnSent: the success line is not logged.
OnSentUnlogged(r) == [r EXCEPT !.pc = "delay"]

\* response.ok: the success line is logged, then the loop awaits the delay.
OnSent(r) == [r EXCEPT !.outcomes = Append(@, Outcome(r, "Sent")), !.pc = "delay"]

\* Mutant of OnFailed: the failure leaves the loop instead of being caught
\* inside it.
OnFailedLeavesLoop(r) ==
    [r EXCEPT !.outcomes = Append(@, Outcome(r, "Failed")), !.pc = "done"]

\* Mutant of OnFailed: the failed contact is tried again.
OnFailedRetries(r) ==
    [r EXCEPT !.outcomes = Append(@, Outcome(r, "Failed")), !.pc = "send"]

\* !response.ok or a rejected fetch: the catch logs the failure line and the
\* loop goes on to the next contact.
OnFailed(r) == NextContact([r EXCEPT !.outcomes = Append(@, Outcome(r, "Failed"))])

\* The client receives the answer to its pending request.
OnResponse(r, status) == IF status = 200 THEN OnSent(r) ELSE OnFailed(r)

Receive(c) ==
    /\ run[c].pc = "wait"
    /\ send[c].at = "answered"
    /\ run' = [run EXCEPT ![c] = OnResponse(@, send[c].n)]
    /\ isSending' = [isSending EXCEPT ![c] = run'[c].pc # "done"]
    /\ send' = [send EXCEPT ![c] = NoRequest]
    /\ UNCHANGED <<server, sessionLost, conn, form, isQRScanned, history>>

\* setTimeout(resolve, delay * 1000) fires.
DelayDone(c) ==
    /\ run[c].pc = "delay"
    /\ run' = [run EXCEPT ![c] = NextContact(@)]
    /\ isSending' = [isSending EXCEPT ![c] = run'[c].pc # "done"]
    /\ UNCHANGED <<server, sessionLost, conn, send, form, isQRScanned, history>>

Next ==
    \/ \E c \in Clients : StartSMSService(c)
    \/ \E h \in ConnIds : LaunchOk(h)
    \/ \E h \in ConnIds : NewPageOk(h)
    \/ \E h \in ConnIds : SetupOk(h)
    \/ \E h \in ConnIds : AuthOk(h)
    \/ \E h \in ConnIds : InitFail(h)
    \/ \E h \in ConnIds : ConnectResponse(h)
    \/ SessionDrop
    \/ \E c \in Clients : SendStepOk(c)
    \/ \E c \in Clients : SendStepFail(c)
    \/ \E c \in Clients : handleAddContact(c)
    \/ \E c \in Clients : \E n \in 2..MaxContacts : handleFileUpload(c, n)
    \/ \E c \in Clients : \E id \in 1..MaxContacts : handleDeleteContact(c, id)
    \/ \E c \in Clients : \E m \in Messages \cup {""} : SetMessage(c, m)
    \/ \E c \in Clients : \E d \in DelayChoices : SetDelay(c, d)
    \/ \E c \in Clients : sendMessages(c)
    \/ \E c \in Clients : Fetch(c)
    \/ \E c \in Clients : FetchReject(c)
    \/ \E c \in Clients : Receive(c)
    \/ \E c \in Clients : DelayDone(c)

Spec == Init /\ [][Next]_vars

\* The connection logic alone: the clients' Connect Service button, the
\* /connect handlers and the session.
ConnectNext ==
    \/ \E c \in Clients : StartSMSService(c)
    \/ \E h \in ConnIds : LaunchOk(h)
    \/ \E h \in ConnIds : NewPageOk(h)
    \/ \E h \in ConnIds : SetupOk(h)
    \/ \E h \in ConnIds : AuthOk(h)
    \/ \E h \in ConnIds : InitFail(h)
    \/ \E h \in ConnIds : ConnectResponse(h)
    \/ SessionDrop

\* Every await of initBrowser is bounded (puppeteer's launch and protocol
\* timeouts, goto 60 s, waitForSelector 30 s, waitForNavigation 300 s): a
\* handler that stays inside initBrowser is eventually thrown out of it.  An
\* answer that was sent is eventually received.  Nothing makes the user scan
\* the code: AuthOk is not fair.
ConnectFairness ==
    \A h \in ConnIds : WF_vars(InitFail(h)) /\ WF_vars(ConnectResponse(h))

ConnectSpec == Init /\ [][ConnectNext]_vars /\ ConnectFairness

\* ------------------------------------------------------------------ claims

Active(c) == run[c].pc \in {"send", "wait", "delay"}
Finished(c) == run[c].pc = "done"
InInit(h) == conn[h].pc \in InitPcs
Statuses(r) == [k \in 1..Len(r.outcomes) |-> r.outcomes[k].status]

\* C1: a run started while isConnected = false produces no outcome, starts no
\* page step for any recipient, and ends at once (aborted) instead of going
\* through its recipients.
C1_NotConnectedRunIsEmpty ==
    \A c \in Clients :
        (run[c].pc # "idle" /\ ~run[c].startConn) =>
            /\ run[c].outcomes = <<>>
            /\ send[c].at # "step"
            /\ run[c].idx = 1

\* C2: a run started while connected, with no session loss, ends with exactly
\* one outcome per recipient, outcome k being recipient k's, having gone
\* through the whole list (not aborted), whatever succeeded or failed.
C2_OneOutcomePerRecipientInOrder ==
    \A c \in Clients :
        (Finished(c) /\ run[c].startConn /\ ~sessionLost) =>
            /\ Len(run[c].outcomes) = Len(run[c].recipients)
            /\ \A k \in 1..Len(run[c].recipients) :
                   run[c].outcomes[k].contact = run[c].recipients[k]
            /\ run[c].idx = Len(run[c].recipients)

\* A finished two-recipient run, started connected, that had a failure and a
\* success.
C2_Witness ==
    \E c \in Clients :
        /\ Finished(c) /\ run[c].startConn /\ ~sessionLost
        /\ Len(run[c].recipients) = 2
        /\ Statuses(run[c]) = <<"Failed", "Sent">>

\* C3: when the answer to recipient i's request is a failure (500 from a page
\* step that threw, 400, or a rejected fetch), the client records Failed for
\* recipient i, the loop goes on to issue recipient i+1's request (or ends
\* after the last recipient), and the service's state is untouched.
C3_FailureIsolated ==
    [][\A c \in Clients :
          (send[c].at = "answered" /\ send[c].n # 200 /\ send'[c].at = "none") =>
              /\ run'[c].outcomes =
                     Append(run[c].outcomes,
                            [contact |-> run[c].recipients[run[c].idx],
                             status |-> "Failed"])
              /\ IF run[c].idx < Len(run[c].recipients)
                 THEN run'[c].pc = "send" /\ run'[c].idx = run[c].idx + 1
                 ELSE run'[c].pc = "done"
              /\ server' = server]_vars

\* Recipient 1's send failed at a page step and recipient 2's page steps are
\* running.
C3_Witness ==
    \E c \in Clients :
        /\ Statuses(run[c]) = <<"Failed">>
        /\ run[c].idx = 2
        /\ send[c].at = "step"
        /\ ~sessionLost

\* C4: once the session has dropped while recipient i's send was being
\* attempted, the run has no outcome for recipient i or any later one.
C4_SessionLostAborts ==
    \A c \in Clients :
        lostAt[c] > 0 => Len(run[c].outcomes) < lostAt[c]

\* C5: at most one /connect handler is inside initBrowser at any time.
C5_OneInitAtATime ==
    Cardinality({h \in ConnIds : InInit(h)}) <= 1

\* C6: at most one page-manipulating sequence is in flight: the /send-message
\* handlers between their first and last page step, plus the connection setup.
C6_OneAutomationInFlight ==
    Cardinality({c \in Clients : send[c].at = "step"})
        + (IF \E h \in ConnIds : InInit(h) THEN 1 ELSE 0) <= 1

\* C7: two campaign runs never both have send requests under way: while one
\* run has issued a request, no other active run has issued one.
HasIssued(c) == Active(c) /\ (run[c].pc # "send" \/ run[c].idx > 1)

C7_CampaignsDoNotInterleave ==
    \A c, d \in Clients : (c # d /\ HasIssued(c)) => ~HasIssued(d)

\* C8: no run issues a send request while a /connect handler is inside
\* initBrowser.
C8_NoSendDuringConnect ==
    [][\A c \in Clients :
          (run[c].pc = "send" /\ run'[c].pc = "wait") =>
              ~\E h \in ConnIds : InInit(h)]_vars

\* C9: the loop reaches recipient i+1 only out of the delay that follows
\* outcome i, whether outcome i is Sent or Failed.
C9_DelayBeforeNextSend ==
    [][\A c \in Clients :
          (Active(c) /\ run'[c].pc = "send" /\ run'[c].idx = run[c].idx + 1) =>
              run[c].pc = "delay"]_vars

\* C10: the loop never waits out the delay after its last recipient.
C10_NoDelayAfterLast ==
    \A c \in Clients :
        ~(run[c].pc = "delay" /\ run[c].idx = Len(run[c].recipients))

\* C11: a /connect request that arrives after an attempt has failed (the
\* service is not connected, no handler is inside initBrowser, and a request
\* was made before) runs initBrowser again.
C11_ConnectAfterFailureRestarts ==
    [][\A h \in ConnIds :
          (/\ conn[h].pc = "free" /\ conn'[h].pc # "free"
           /\ used.connects > 0
           /\ ~isConnected
           /\ ~\E g \in ConnIds : InInit(g)) =>
              conn'[h].pc = "launch"]_vars

\* C12: a handler leaves initBrowser either through the resolved navigation,
\* connected and answering success, or through the catch: isConnected is
\* false, the answer is an error, browser and page are as they were; and the
\* client that receives the error does not set isQRScanned.
C12_InitFailureIsReported ==
    [][\A h \in ConnIds :
          /\ (InInit(h) /\ conn'[h].pc \notin InitPcs) =>
                 \/ conn[h].pc = "auth" /\ conn'[h].pc = "ok" /\ isConnected'
                 \/ /\ conn'[h].pc = "err"
                    /\ ~isConnected'
                    /\ browser' = browser /\ page' = page
          /\ (conn[h].pc = "err" /\ conn'[h].pc # "err") =>
                 /\ conn'[h].pc = "closed"
                 /\ isQRScanned' = isQRScanned]_vars

\* A handler's navigation wait timed out after the browser and page were
\* set up, and the service is not connected.
C12_Witness ==
    \E h \in ConnIds :
        conn[h].pc = "err" /\ page # 0 /\ ~isConnected

\* C13: /status answers connected after a successful attempt, and after an
\* authentication timeout its answer differs from the one given before any
\* connect ({connected: false}).
C13_StatusShowsFailure ==
    [][\A h \in ConnIds :
          /\ (conn[h].pc = "auth" /\ conn'[h].pc = "ok") => Status'.connected
          /\ (conn[h].pc = "auth" /\ conn'[h].pc = "err") =>
                 Status' # [connected |-> FALSE]]_vars

\* C15: once isConnected is true no step sets it back to false.
C15_ConnectedStaysConnected ==
    [][isConnected => isConnected']_vars

\* C16: whenever a /connect handler answers {success: true}, isConnected is
\* true at that moment.
C16_SuccessImpliesConnected ==
    [][\A h \in ConnIds :
          (conn[h].pc # "ok" /\ conn'[h].pc = "ok") => isConnected']_vars

\* C14: while a run is active its recipients, message and delay do not change,
\* whatever is added, imported, deleted or typed in the form, and every
\* request it issues carries the recipient at the loop's position in the list
\* the run started with, and the message it started with.
C14_RunUsesItsOwnCampaign ==
    [][\A c \in Clients :
          Active(c) =>
              /\ run'[c].recipients = run[c].recipients
              /\ run'[c].message = run[c].message
              /\ run'[c].delay = run[c].delay
              /\ Len(run'[c].requests) > Len(run[c].requests) =>
                     run'[c].requests =
                         Append(run[c].requests,
                                [idx |-> run[c].idx,
                                 phone |-> run[c].recipients[run[c].idx],
                                 message |-> run[c].message])]_vars

\* A run that has issued requests while the form no longer holds the contacts
\* and the message the run started with.
C14_Witness ==
    \E c \in Clients :
        /\ Active(c)
        /\ Len(run[c].requests) = 2
        /\ contacts[c] # run[c].recipients
        /\ currentMessage[c] # run[c].message

\* C17: within one run no position of the recipient list is requested twice,
\* every request is for the recipient at its position, and a finished run has
\* requested every position.
C17_OneRequestPerRecipient ==
    \A c \in Clients :
        LET q == run[c].requests IN
        /\ \A j, k \in 1..Len(q) : j # k => q[j].idx # q[k].idx
        /\ \A k \in 1..Len(q) : q[k].phone = run[c].recipients[q[k].idx]
        /\ Finished(c) => {q[k].idx : k \in 1..Len(q)} = 1..Len(run[c].recipients)

\* A finished run whose second recipient failed.
C17_Witness ==
    \E c \in Clients :
        /\ Finished(c)
        /\ Len(run[c].requests) = 2
        /\ Statuses(run[c]) = <<"Sent", "Failed">>

\* C18: the outcomes are those of a prefix of the recipient list, in order;
\* the requests issued are at most one ahead of the outcomes, and exactly one
\* ahead only while the loop awaits an answer.
C18_OutcomesArePrefix ==
    \A c \in Clients :
        LET r == run[c] IN
        /\ Len(r.outcomes) <= Len(r.recipients)
        /\ \A k \in 1..Len(r.outcomes) : r.outcomes[k].contact = r.recipients[k]
        /\ Len(r.requests) = Len(r.outcomes) + (IF r.pc = "wait" THEN 1 ELSE 0)
        /\ r.pc \in {"send", "wait"} => r.idx = Len(r.outcomes) + 1

\* Recipient 2's request is pending and recipient 1's outcome is there.
C18_Witness ==
    \E c \in Clients :
        /\ run[c].pc = "wait"
        /\ run[c].idx = 2
        /\ Statuses(run[c]) = <<"Sent">>

\* C20: isSending is true exactly while a run is between its start and its
\* end; a run never starts with an empty message or an empty list; an active
\* run can always take a step; and every step of a run or of its request
\* lowers Remaining, so the run ends after finitely many of them.
RunStep(c) ==
    \/ Fetch(c)
    \/ FetchReject(c)
    \/ SendStepOk(c)
    \/ SendStepFail(c)
    \/ Receive(c)
    \/ DelayDone(c)

Position(c) ==
    CASE run[c].pc = "send" -> NSendSteps + 3
      [] run[c].pc = "wait" /\ send[c].at = "step" -> NSendSteps + 3 - send[c].n
      [] run[c].pc = "wait" /\ send[c].at # "step" -> 2
      [] run[c].pc = "delay" -> 1
      [] OTHER -> 0

Remaining(c) ==
    (Len(run[c].recipients) - run[c].idx) * (NSendSteps + 4) + Position(c)

C20_RunState ==
    \A c \in Clients :
        /\ isSending[c] = Active(c)
        /\ run[c].pc # "idle" => run[c].message # "" /\ run[c].recipients # <<>>
        /\ Active(c) => ENABLED RunStep(c)

C20_RunEnds ==
    /\ []C20_RunState
    /\ [][\A c \in Clients :
             (Active(c) /\ <<run[c], send[c]>>' # <<run[c], send[c]>>) =>
                 Remaining(c)' < Remaining(c)]_vars

\* A run of two recipients has ended and released isSending.
C20_Witness ==
    \E c \in Clients :
        /\ Finished(c)
        /\ ~isSending[c]
        /\ Statuses(run[c]) = <<"Sent", "Sent">>

\* C19: every /connect request that was made is eventually answered and the
\* answer received: no handler stays inside initBrowser forever.
C19_AttemptResolves ==
    \A h \in ConnIds :
        (conn[h].pc \in InitPcs \cup {"ok", "err"}) ~> (conn[h].pc = "closed")

\* An attempt went through the authentication wait, connected, and its
\* answer was received.
C19_Witness ==
    \E h \in ConnIds :
        conn[h].pc = "closed" /\ isConnected /\ isQRScanned[1]

=============================================================================
